---- MODULE Spec2Model ----
(***************************************************************************)
(* The redaction handler of api/redact-document.js.  The repository holds  *)
(* several versions of the handler side by side; each job runs one of      *)
(* them.  A job is modelled from the arrival of the request to the HTTP    *)
(* response, at the granularity of the handler's await points: the         *)
(* extraction task and the font task are separate threads of control that  *)
(* the handler joins with Promise.all.                                     *)
(***************************************************************************)
EXTENDS Integers, Sequences, FiniteSets, TLC

VARIABLES
    version,     \* which version of the handler serves the job
    req,         \* the inbound request and its environment
    pc,          \* position of the handler's own thread of control
    response,    \* sequence of HTTP responses sent (status and cause)
    attempts,    \* AI requests issued so far, oldest first, with their fate
    aiStatus,    \* state of the extraction promise
    metaInfo,    \* value the extraction promise resolved to
    fontStatus,  \* state of the font promise
    fontResult,  \* value the font promise resolved to
    docLoaded,   \* PDFDocument.load has returned
    useFont,     \* the font embedded in the document
    drawn,       \* drawing operations applied to the document, in order
    pdfBytes,    \* result of pdfDoc.save()
    uploaded,    \* storage upload accepted
    inserted,    \* queue insert issued
    wrapText,    \* wordWrap: the text argument
    wrapMaxWidth, \* wordWrap: the maxWidth argument
    wrapFont,    \* wordWrap: the font argument
    wrapLines,   \* wordWrap: the lines returned
    safeName,    \* object name handed to the storage upload
    record,      \* row handed to the document_queue insert
    fileBase64,  \* payload cleaning: req.body.fileBase64
    cleanBase64, \* payload cleaning: the string handed to the AI and the loader
    bucket,      \* the storage bucket legal-docs: object names and whose bytes they hold
    peerPc,      \* a second job running at the same time: its position
    peerFileName, \* the second job: its display file name
    peerSafeName \* the second job: the object name it uploaded under

vars == <<version, req, pc, response, attempts, aiStatus, metaInfo, fontStatus,
          fontResult, docLoaded, useFont, drawn, pdfBytes, uploaded, inserted,
          wrapText, wrapMaxWidth, wrapFont, wrapLines, safeName, record,
          fileBase64, cleanBase64, bucket, peerPc, peerFileName, peerSafeName>>

\* the storage bucket and the job that runs next to the one under study
peerVars == <<bucket, peerPc, peerFileName, peerSafeName>>

\* the payload string under study and what the cleaning makes of it
cleanVars == <<fileBase64, cleanBase64>>

\* the arguments and the result of the wordWrap call under study
wrapVars == <<wrapText, wrapMaxWidth, wrapFont, wrapLines>>

(***************************************************************************)
(* Bounds of the model.                                                    *)
(***************************************************************************)
MaxPages == 3

\* longest text handed to wordWrap, in characters
MaxTextLen == 6

\* largest maxWidth handed to wordWrap, in units of the narrowest glyph
MaxWidth == 6

\* longest display file name, in characters
MaxNameLen == 3

\* longest payload string, in tokens
MaxPayloadLen == 4

\* number of lines a long field content is wrapped into
LongLines == 3

(***************************************************************************)
(* The versions of the handler and their candidate lists.                  *)
(***************************************************************************)
Versions ==
    {"Basic", "Parallel", "Sequential", "Diagnosis", "FinalDiagnosis", "RealName",
     "RawDebug"}

\* versions whose extractor is the ordered fallback loop
ChainVersions == {"Sequential", "Diagnosis", "FinalDiagnosis", "RealName"}

\* versions whose font resolver is loadFont (try/catch around the fetch)
LoadFontVersions == {"Diagnosis", "FinalDiagnosis", "RealName"}

\* versions that read and check GEMINI_API_KEY inside the handler
KeyCheckVersions == {"Diagnosis", "RealName"}

MODELS_TO_TRY(v) ==
    CASE v = "RealName" ->
           <<"gemini-2.0-flash", "gemini-2.5-flash", "gemini-flash-latest",
             "gemini-pro-latest">>
      [] v \in {"Diagnosis", "FinalDiagnosis"} ->
           <<"gemini-1.5-flash", "gemini-1.5-flash-001", "gemini-1.5-pro",
             "gemini-pro">>
      [] v = "Sequential" ->
           <<"gemini-1.5-flash", "gemini-1.5-flash-001", "gemini-1.5-flash-002",
             "gemini-1.5-pro", "gemini-1.0-pro", "gemini-pro",
             "gemini-flash-latest">>
      [] v = "Parallel" -> <<"gemini-1.5-flash-001">>
      [] v = "RawDebug" -> << >>
      [] OTHER -> <<"gemini-1.5-flash">>

\* the model the diagnosis versions send their test request to
PingModel == "gemini-1.5-flash"

(***************************************************************************)
(* JSON values an AI response can carry.  A field is described by the kind *)
(* of value it holds; the mask anchor fields carry a number (the ratio in  *)
(* percent) when their kind is "number".                                   *)
(***************************************************************************)
Num(n) == [t |-> "number", n |-> n]
Absent == [t |-> "absent", n |-> 0]

\* a number with a fractional part: n + 1/2
Half(n) == [t |-> "half", n |-> n]

\* a non-empty string that is no numeral
Str == [t |-> "string", n |-> 0]

\* the number a numeral such as 1e999 parses to
Infinity == [t |-> "infinity", n |-> 0]

\* the result of arithmetic on a value that is no number
NaN == [t |-> "nan", n |-> 0]

Meta(kind, court, caseNo, parties, lawyer, order, claim, page, ratio) ==
    [kind |-> kind, court |-> court, caseNo |-> caseNo, parties |-> parties,
     lawyer |-> lawyer, order |-> order, claim |-> claim,
     maskEndPage |-> page, maskEndRatio |-> ratio]

\* maskEndPage and maskEndRatio of the JSON texts whose anchor is unusual
AnchorTexts ==
    [tok \in {"{pZero}", "{pNegative}", "{pFraction}", "{pBeyond}", "{pString}",
              "{rZero}", "{rNegative}", "{rAbove}", "{rNearTop}", "{rOne}",
              "{rString}", "{rInfinity}"} |->
        CASE tok = "{pZero}" -> [page |-> Num(0), ratio |-> Num(40)]
          [] tok = "{pNegative}" -> [page |-> Num(-1), ratio |-> Num(40)]
          [] tok = "{pFraction}" -> [page |-> Half(2), ratio |-> Num(40)]
          [] tok = "{pBeyond}" -> [page |-> Num(MaxPages + 1), ratio |-> Num(40)]
          [] tok = "{pString}" -> [page |-> Str, ratio |-> Num(40)]
          [] tok = "{rZero}" -> [page |-> Num(1), ratio |-> Num(0)]
          [] tok = "{rNegative}" -> [page |-> Num(1), ratio |-> Num(-50)]
          [] tok = "{rAbove}" -> [page |-> Num(1), ratio |-> Num(300)]
          [] tok = "{rNearTop}" -> [page |-> Num(1), ratio |-> Num(96)]
          [] tok = "{rOne}" -> [page |-> Num(1), ratio |-> Num(100)]
          [] tok = "{rString}" -> [page |-> Num(1), ratio |-> Str]
          [] OTHER -> [page |-> Num(1), ratio |-> Infinity]]

\* JSON.parse of each JSON text of the model
JsonValue(tok) ==
    CASE tok = "null" ->
           Meta("null", "absent", "absent", "absent", "absent", "absent",
                "absent", Absent, Absent)
      [] tok = "42" ->
           Meta("number", "absent", "absent", "absent", "absent", "absent",
                "absent", Absent, Absent)
      [] tok = "{full}" ->
           Meta("object", "text", "text", "text", "text", "text", "text",
                Num(1), Num(40))
      [] tok = "{page2}" ->
           Meta("object", "text", "text", "text", "text", "text", "text",
                Num(2), Num(10))
      [] tok = "{partial}" ->
           Meta("object", "text", "text", "absent", "empty", "absent",
                "absent", Absent, Absent)
      [] tok = "{scenario1}" ->
           Meta("object", "text", "text", "text", "text", "absent", "absent",
                Num(1), Num(40))
      [] tok = "{long}" ->
           Meta("object", "text", "text", "text", "text", "long", "long",
                Num(1), Num(40))
      [] tok = "{mistyped}" ->
           Meta("object", "number", "text", "text", "text", "text", "text",
                Num(1), Num(40))
      [] tok \in DOMAIN AnchorTexts ->
           Meta("object", "text", "text", "text", "text", "text", "text",
                AnchorTexts[tok].page, AnchorTexts[tok].ratio)

JsonTexts ==
    {"null", "42", "{full}", "{page2}", "{scenario1}", "{partial}", "{long}",
     "{mistyped}"}
        \cup DOMAIN AnchorTexts

\* value of a promise that has not resolved
Unset ==
    Meta("unset", "absent", "absent", "absent", "absent", "absent", "absent",
         Absent, Absent)

\* Mutant of Sentinel: the anchor-based sentinel points at the second
\* page with the ratio the renderer falls back to.
SentinelWrongAnchor(v) ==
    IF v = "RealName"
    THEN Meta("object", "ANALYSIS_FAILED", "NO_INFO", "NO_INFO", "NO_INFO",
              "NO_CONTENT", "NO_CONTENT", Num(2), Num(60))
    ELSE Meta("object", "ANALYSIS_FAILED", "NO_INFO", "empty", "empty",
              "absent", "absent", Absent, Absent)

\* the structure analyzeDoc returns when every candidate failed
Sentinel(v) ==
    IF v = "RealName"
    THEN Meta("object", "ANALYSIS_FAILED", "NO_INFO", "NO_INFO", "NO_INFO",
              "NO_CONTENT", "NO_CONTENT", Num(1), Num(50))
    ELSE Meta("object", "ANALYSIS_FAILED", "NO_INFO", "empty", "empty",
              "absent", "absent", Absent, Absent)

\* the initial metaInfo of the single-request versions
EmptyMeta ==
    Meta("object", "empty", "empty", "empty", "empty", "absent", "absent",
         Absent, Absent)

(***************************************************************************)
(* Response texts: sequences of tokens, a token being a code fence (the    *)
(* three backticks, with or without the word json), white space, prose,    *)
(* or one complete JSON text.                                              *)
(***************************************************************************)
Fences == {"FENCE_JSON", "FENCE"}

Bodies ==
    {<<j>> : j \in JsonTexts}
      \cup {<<"FENCE_JSON", j, "FENCE">> : j \in {"{full}", "null"}}
      \cup {<<"FENCE_JSON", " ", "{page2}", " ", "FENCE">>,
            <<"FENCE", "{partial}", "FENCE", " ">>,
            <<"prose">>, <<"prose", "{full}">>, <<"FENCE_JSON", "prose", "FENCE">>,
            <<"{full}", " ", "{full}">>, << >>}

\* the two replace calls that delete every code fence from the text
StripFences(text) == SelectSeq(text, LAMBDA t : t \notin Fences)

RECURSIVE TrimLeft(_)
TrimLeft(text) ==
    IF text # << >> /\ Head(text) = " " THEN TrimLeft(Tail(text)) ELSE text

RECURSIVE TrimRight(_)
TrimRight(text) ==
    IF text # << >> /\ text[Len(text)] = " "
    THEN TrimRight(SubSeq(text, 1, Len(text) - 1))
    ELSE text

\* String.prototype.trim
Trim(text) == TrimRight(TrimLeft(text))

\* JSON.parse: succeeds on exactly one JSON text, throws on anything else
JSONparse(text) ==
    IF Len(text) = 1 /\ text[1] \in JsonTexts
    THEN [ok |-> TRUE, value |-> JsonValue(text[1])]
    ELSE [ok |-> FALSE, value |-> Unset]

\* result.response.text() cleaned and parsed
ParseResponse(body) == JSONparse(Trim(StripFences(body)))

\* what one generateContent call can do
Outcomes ==
    {[kind |-> k, body |-> << >>] : k \in {"requestError", "quotaError", "blocked"}}
      \cup {[kind |-> "text", body |-> b] : b \in Bodies}


\* what the font fetch can do
FontOutcomes == {"ok", "httpError", "networkError"}

NoFont == [fontData |-> "unset", type |-> "unset"]

(***************************************************************************)
(* The extractor.                                                          *)
(***************************************************************************)
Request(model, kind) ==
    [model |-> model, kind |-> kind, result |-> "pending", value |-> Unset]

\* the attempts that are still in flight
Pending(att) == {i \in DOMAIN att : att[i].result = "pending"}

\* number of extraction requests among the attempts
ExtractCount(att) ==
    Cardinality({i \in DOMAIN att : att[i].kind = "extract"})

\* One iteration of the loop body: what a candidate's response amounts to.
\* Any rejection, a blocked response and a text that does not parse all end
\* in the catch clause.
TryCandidate(o) ==
    IF o.kind = "text" THEN ParseResponse(o.body) ELSE [ok |-> FALSE, value |-> Unset]

\* Mutant of analyzeDoc: the request to the following candidate is issued
\* together with the request to candidate k (speculative parallel calls).
analyzeDocAllAtOnce(v, models, k, att) ==
    IF k + 1 <= Len(models)
    THEN [attempts |-> att \o <<Request(models[k], "extract"),
                                Request(models[k + 1], "extract")>>,
          status |-> "pending", meta |-> Unset]
    ELSE IF k <= Len(models)
    THEN [attempts |-> Append(att, Request(models[k], "extract")),
          status |-> "pending", meta |-> Unset]
    ELSE [attempts |-> att, status |-> "resolved", meta |-> Sentinel(v)]

\* The for loop over the candidate list, entered at position k with the
\* attempts att behind it: the next request is issued, or the list is
\* exhausted and the sentinel is returned.
analyzeDoc(v, models, k, att) ==
    IF k <= Len(models)
    THEN [attempts |-> Append(att, Request(models[k], "extract")),
          status |-> "pending", meta |-> Unset]
    ELSE [attempts |-> att, status |-> "resolved", meta |-> Sentinel(v)]

\* how an attempt that did not yield a value is recorded
Failure(o) == IF o.kind = "text" THEN "unparsed" ELSE "failed"

\* Mutant of analyzeDocResume: a parsed response does not end the loop, the
\* remaining candidates are still asked (no return inside the try block).
analyzeDocKeepsTrying(v, att, i, o) ==
    LET r == TryCandidate(o) IN
    IF att[i].kind = "ping"
    THEN analyzeDoc(v, MODELS_TO_TRY(v), 1,
                    [att EXCEPT ![i].result =
                         IF o.kind = "text" THEN "done" ELSE "failed"])
    ELSE analyzeDoc(v, MODELS_TO_TRY(v), ExtractCount(att) + 1,
                    [att EXCEPT ![i].result = IF r.ok THEN "parsed" ELSE Failure(o),
                                ![i].value = r.value])

\* Mutant of analyzeDocResume: the loop position is taken one too low, so
\* the first candidate is asked again after it failed.
analyzeDocRetries(v, att, i, o) ==
    LET r == TryCandidate(o) IN
    IF att[i].kind = "ping"
    THEN analyzeDoc(v, MODELS_TO_TRY(v), 1,
                    [att EXCEPT ![i].result =
                         IF o.kind = "text" THEN "done" ELSE "failed"])
    ELSE IF r.ok
    THEN [attempts |-> [att EXCEPT ![i].result = "parsed", ![i].value = r.value],
          status |-> "resolved", meta |-> r.value]
    ELSE analyzeDoc(v, MODELS_TO_TRY(v), ExtractCount(att),
                    [att EXCEPT ![i].result = Failure(o)])

\* The fallback extractor resumed by the outcome o of attempt i: the test
\* request of the diagnosis versions leads into the loop whatever it did, a
\* parsed response is returned, anything else continues with the next
\* candidate.
analyzeDocResume(v, att, i, o) ==
    LET r == TryCandidate(o) IN
    IF att[i].kind = "ping"
    THEN analyzeDoc(v, MODELS_TO_TRY(v), 1,
                    [att EXCEPT ![i].result =
                         IF o.kind = "text" THEN "done" ELSE "failed"])
    ELSE IF r.ok
    THEN [attempts |-> [att EXCEPT ![i].result = "parsed", ![i].value = r.value],
          status |-> "resolved", meta |-> r.value]
    ELSE analyzeDoc(v, MODELS_TO_TRY(v), ExtractCount(att) + 1,
                    [att EXCEPT ![i].result = Failure(o)])

\* The single-request extractor: the request is awaited outside any try,
\* only text() and JSON.parse are guarded, with the empty record as default.
analysisPromise(att, i, o) ==
    IF o.kind \in {"requestError", "quotaError"}
    THEN [attempts |-> [att EXCEPT ![i].result = "failed"],
          status |-> "rejected", meta |-> Unset]
    ELSE LET r == TryCandidate(o) IN
         [attempts |-> [att EXCEPT ![i].result = IF r.ok THEN "parsed" ELSE Failure(o),
                                   ![i].value = r.value],
          status |-> "resolved",
          meta |-> IF r.ok THEN r.value ELSE EmptyMeta]

(***************************************************************************)
(* The font resolver.                                                      *)
(***************************************************************************)
\* loadFont: the fetch and the status check sit inside try/catch
loadFont(o) ==
    IF o = "ok"
    THEN [status |-> "resolved", value |-> [fontData |-> "font", type |-> "custom"]]
    ELSE [status |-> "resolved", value |-> [fontData |-> "null", type |-> "standard"]]

\* fontPromise: fetch(...).then(res => { if (!res.ok) throw ...; ... })
fontPromise(o) ==
    IF o = "ok"
    THEN [status |-> "resolved", value |-> [fontData |-> "font", type |-> "bytes"]]
    ELSE [status |-> "rejected", value |-> NoFont]

\* fetch(fontUrl).then(res => res.arrayBuffer()): the status is not looked at
fetchFontBytes(o) ==
    CASE o = "ok" ->
           [status |-> "resolved", value |-> [fontData |-> "font", type |-> "bytes"]]
      [] o = "httpError" ->
           [status |-> "resolved", value |-> [fontData |-> "errorPage", type |-> "bytes"]]
      [] OTHER -> [status |-> "rejected", value |-> NoFont]

FontTask(v, o) ==
    CASE v \in LoadFontVersions -> loadFont(o)
      [] v = "Basic" -> fetchFontBytes(o)
      [] OTHER -> fontPromise(o)


(***************************************************************************)
(* wordWrap.  A text is a sequence of characters; the width of a string is *)
(* the sum of the advance widths of its characters in the font.            *)
(***************************************************************************)
Chars == {"a", "M", " ", "\n"}

Texts == UNION {[1..n -> Chars] : n \in 0..MaxTextLen}

\* the fonts a width is measured in: every glyph equally wide, or M wider
Fonts == {"mono", "custom"}

\* text.replace(/\n/g, ' ')
ReplaceNewlines(text) ==
    [i \in DOMAIN text |-> IF text[i] = "\n" THEN " " ELSE text[i]]

\* String.prototype.split(' '): the pieces between the spaces, empty
\* pieces included
RECURSIVE Split(_)
Split(str) ==
    IF \A i \in DOMAIN str : str[i] # " "
    THEN <<str>>
    ELSE LET k == CHOOSE i \in DOMAIN str :
                     str[i] = " " /\ \A j \in 1..(i - 1) : str[j] # " "
         IN  <<SubSeq(str, 1, k - 1)>> \o Split(SubSeq(str, k + 1, Len(str)))

\* font.widthOfTextAtSize(str, fontSize)
RECURSIVE widthOfTextAtSize(_, _)
widthOfTextAtSize(font, str) ==
    IF str = << >> THEN 0
    ELSE (IF font = "custom" /\ Head(str) = "M" THEN 3 ELSE 1)
            + widthOfTextAtSize(font, Tail(str))

\* Mutant of Fits: a tentative line exactly as wide as maxWidth is accepted.
FitsAtMost(font, currentLine, word, maxWidth) ==
    widthOfTextAtSize(font, currentLine \o <<" ">> \o word) <= maxWidth

\* Mutant of Fits: the width of the current line alone is tested.
FitsCurrentLineOnly(font, currentLine, word, maxWidth) ==
    widthOfTextAtSize(font, currentLine) < maxWidth

\* the test of the loop: width of currentLine + " " + word under maxWidth
Fits(font, currentLine, word, maxWidth) ==
    widthOfTextAtSize(font, currentLine \o <<" ">> \o word) < maxWidth

\* Mutant of WrapLoop: the line under construction is not pushed when the
\* words run out.
RECURSIVE WrapLoopDropsLast(_, _, _, _, _, _)
WrapLoopDropsLast(words, i, currentLine, lines, maxWidth, font) ==
    IF i > Len(words)
    THEN lines
    ELSE IF Fits(font, currentLine, words[i], maxWidth)
    THEN WrapLoopDropsLast(words, i + 1, currentLine \o <<" ">> \o words[i],
                           lines, maxWidth, font)
    ELSE WrapLoopDropsLast(words, i + 1, words[i], Append(lines, currentLine),
                           maxWidth, font)

\* the for loop of wordWrap from word i on
RECURSIVE WrapLoop(_, _, _, _, _, _)
WrapLoop(words, i, currentLine, lines, maxWidth, font) ==
    IF i > Len(words)
    THEN Append(lines, currentLine)
    ELSE IF Fits(font, currentLine, words[i], maxWidth)
    THEN WrapLoop(words, i + 1, currentLine \o <<" ">> \o words[i], lines,
                  maxWidth, font)
    ELSE WrapLoop(words, i + 1, words[i], Append(lines, currentLine),
                  maxWidth, font)

wordWrap(text, maxWidth, font) ==
    IF text = << >>
    THEN << >>
    ELSE LET words == Split(ReplaceNewlines(text))
         IN  WrapLoop(words, 2, words[1], << >>, maxWidth, font)

(***************************************************************************)
(* Rendering.  The synchronous code between embedFont and save is a list   *)
(* of steps; a step either throws or applies its drawing operations.       *)
(***************************************************************************)
Op(op, page, what, height) ==
    [op |-> op, page |-> page, what |-> what, height |-> height]

Step(throws, cause, ops) == [throws |-> throws, cause |-> cause, ops |-> ops]

Min(a, b) == IF a < b THEN a ELSE b

\* Mutant of endPageIdx: the one-based page number is used as the index
\* without the decrement.
endPageIdxNotDecremented(m) ==
    LET p == m.maskEndPage IN
    CASE p.t = "absent" -> Num(1)
      [] p.t = "number" -> IF p.n = 0 THEN Num(1) ELSE Num(p.n)
      [] p.t = "half" -> Half(p.n)
      [] p.t = "infinity" -> Infinity
      [] OTHER -> NaN

\* (metaInfo.maskEndPage || 1) - 1: a falsy value counts as page 1, any
\* other value is converted to a number and decremented
endPageIdx(m) ==
    LET p == m.maskEndPage IN
    CASE p.t = "absent" -> Num(0)
      [] p.t = "number" -> IF p.n = 0 THEN Num(0) ELSE Num(p.n - 1)
      [] p.t = "half" -> Half(p.n - 1)
      [] p.t = "infinity" -> Infinity
      [] OTHER -> NaN

\* endRatio before the margin: 0.6 unless typeof endRatio is 'number'
reportedRatio(m) ==
    IF m.maskEndRatio.t \in {"number", "infinity"} THEN m.maskEndRatio ELSE Num(60)

\* Mutant of endRatio: the reported ratio is used without the margin.
endRatioNoMargin(m) ==
    IF reportedRatio(m).t = "infinity" THEN 100 ELSE Min(reportedRatio(m).n, 100)

\* Mutant of endRatio: the margin is added without the cap at 1.0.
endRatioUncapped(m) ==
    IF reportedRatio(m).t = "infinity" THEN 100 ELSE reportedRatio(m).n + 5

\* the ratio in percent: Math.min(endRatio + 0.05, 1.0)
endRatio(m) ==
    IF reportedRatio(m).t = "infinity" THEN 100 ELSE Min(reportedRatio(m).n + 5, 100)

\* i < endPageIdx for a page index i
Less(i, idx) ==
    CASE idx.t = "number" -> i < idx.n
      [] idx.t = "half" -> i <= idx.n
      [] idx.t = "infinity" -> TRUE
      [] OTHER -> FALSE

\* i === endPageIdx for a page index i
StrictEq(i, idx) == idx.t = "number" /\ i = idx.n

\* the loop over the pages from page i on: a full mask on a page before
\* endPageIdx, a partial mask on the page that equals it, then break
RECURSIVE MaskLoopFrom(_, _, _, _)
MaskLoopFrom(i, n, idx, ratio) ==
    IF i >= n THEN << >>
    ELSE IF Less(i, idx)
    THEN <<Op("mask", i, "full", 100)>> \o MaskLoopFrom(i + 1, n, idx, ratio)
    ELSE IF StrictEq(i, idx)
    THEN <<Op("mask", i, "partial", ratio)>>
    ELSE MaskLoopFrom(i + 1, n, idx, ratio)

MaskLoop(n, idx, ratio) == MaskLoopFrom(0, n, idx, ratio)

\* pdf-lib's standard fonts encode WinAnsi only: drawText and
\* widthOfTextAtSize throw on Korean text; an embedded font never throws
CannotEncode(font, script) == font = "standard" /\ script = "korean"

\* Mutant of NoFirstPage: reading the size of a missing first page does
\* not throw.
NoFirstPageIgnored(n) == FALSE

\* pages[0] is undefined in a document without pages: firstPage.getSize()
\* throws a TypeError
NoFirstPage(n) == n = 0

\* a field value that is truthy and not a string has no replace method
NotAString(f) == f = "number"

\* a field value that is falsy
Falsy(f) == f \in {"absent", "empty"}

\* const lineHeight = 16
lineHeight == 16

\* a drawText on the first page of the anchor-based version: what is drawn,
\* for which field, at which vertical position
Text(what, field, y) ==
    [op |-> "text", page |-> 0, what |-> what, height |-> 0,
     field |-> field, y |-> y]

\* the number of lines wordWrap returns for content || placeholder: the
\* placeholder is one line, a long content is several
LinesOf(f) == IF f = "long" THEN LongLines ELSE 1

\* what one call of drawField subtracts from textY: one line height per
\* line, then the paragraph gap of 5
FieldAdvance(f) == LinesOf(f) * lineHeight + 5

\* Mutant of drawField: an empty or absent content draws its label and
\* no line (the early return of drawLine).
drawFieldSkipsEmpty(font, labelScript, name, f, y) ==
    <<Step(CannotEncode(font, labelScript), "fieldEncoding",
           <<Text("label", name, y)>>),
      Step(NotAString(f), "fieldValue",
           IF Falsy(f) THEN << >>
           ELSE [k \in 1..LinesOf(f) |->
                    Text("line", name, y - (k - 1) * lineHeight)])>>

\* drawField(label, content) of the anchor-based version called with
\* textY = y: the label, then every line of the wrapped content, each one
\* line height below the one before; nothing stops at the page bottom
drawField(font, labelScript, name, f, y) ==
    <<Step(CannotEncode(font, labelScript), "fieldEncoding",
           <<Text("label", name, y)>>),
      Step(NotAString(f), "fieldValue",
           [k \in 1..LinesOf(f) |->
               Text(IF Falsy(f) THEN "placeholder" ELSE "line", name,
                    y - (k - 1) * lineHeight)])>>

\* part_003, RealName Lawyer Fix: masks from the anchor, then the title and
\* the fields from textY = height - 50 downwards
RenderRealName(m, font, n, height) ==
    LET yCourt == height - 50 - 30
        yCaseNo == yCourt - FieldAdvance(m.court)
        yParties == yCaseNo - FieldAdvance(m.caseNo)
        yLawyer == yParties - FieldAdvance(m.parties)
        yOrderHead == yLawyer - FieldAdvance(m.lawyer) - 10
        yOrder == yOrderHead - 20
        yClaimHead == yOrder - FieldAdvance(m.order) - 10
        yClaim == yClaimHead - 20
    IN
    <<Step(m.kind = "null", "metaInfo", << >>),
      Step(FALSE, "none", MaskLoop(n, endPageIdx(m), endRatio(m))),
      Step(NoFirstPage(n), "input", << >>),
      Step(CannotEncode(font, "korean"), "encoding",
           <<Text("title", "title", height - 50)>>)>>
      \o drawField(font, "korean", "court", m.court, yCourt)
      \o drawField(font, "korean", "caseNo", m.caseNo, yCaseNo)
      \o drawField(font, "korean", "parties", m.parties, yParties)
      \o drawField(font, "korean", "lawyer", m.lawyer, yLawyer)
      \o <<Step(CannotEncode(font, "korean"), "encoding",
                <<Text("heading", "order", yOrderHead)>>)>>
      \o drawField(font, "ascii", "order", m.order, yOrder)
      \o <<Step(CannotEncode(font, "korean"), "encoding",
                <<Text("heading", "claim", yClaimHead)>>)>>
      \o drawField(font, "ascii", "claim", m.claim, yClaim)

\* safeDraw(label, value): the argument is read first, then one line is drawn
safeDraw(m, font, name, f) ==
    <<Step(m.kind = "null", "metaInfo", << >>),
      Step(CannotEncode(font, "korean"), "fieldEncoding", <<Op("text", 0, name, 0)>>)>>

\* the diagnosis versions: fixed mask, title by font kind, four lines
RenderDiagnosis(m, font, n) ==
    <<Step(NoFirstPage(n), "input", << >>),
      Step(FALSE, "none", <<Op("mask", 0, "fixed", 350)>>),
      Step(FALSE, "none", <<Op("text", 0, "title", 0)>>)>>
      \o safeDraw(m, font, "court", m.court)
      \o safeDraw(m, font, "caseNo", m.caseNo)
      \o safeDraw(m, font, "parties", m.parties)
      \o safeDraw(m, font, "lawyer", m.lawyer)

\* drawLine(l, v): nothing is drawn for a falsy value
drawLine(m, name, f) ==
    <<Step(m.kind = "null", "metaInfo", << >>),
      Step(FALSE, "none", IF Falsy(f) THEN << >> ELSE <<Op("text", 0, name, 0)>>)>>

\* the versions that always embed the fetched font
RenderFixed(m, n) ==
    <<Step(NoFirstPage(n), "input", << >>),
      Step(FALSE, "none", <<Op("mask", 0, "fixed", 350)>>),
      Step(FALSE, "none", <<Op("text", 0, "title", 0)>>)>>
      \o drawLine(m, "court", m.court)
      \o drawLine(m, "caseNo", m.caseNo)
      \o drawLine(m, "parties", m.parties)
      \o drawLine(m, "lawyer", m.lawyer)

\* Mutant of RenderSteps: the text is drawn first and the masks last.
RenderStepsTextFirst(v, m, font, n, height) ==
    CASE v = "RealName" ->
           SubSeq(RenderRealName(m, font, n, height), 3,
                  Len(RenderRealName(m, font, n, height)))
             \o SubSeq(RenderRealName(m, font, n, height), 1, 2)
      [] v \in {"Diagnosis", "FinalDiagnosis"} -> RenderDiagnosis(m, font, n)
      [] OTHER -> RenderFixed(m, n)

RenderSteps(v, m, font, n, height) ==
    CASE v = "RealName" -> RenderRealName(m, font, n, height)
      [] v \in {"Diagnosis", "FinalDiagnosis"} -> RenderDiagnosis(m, font, n)
      [] OTHER -> RenderFixed(m, n)

\* runs the steps in order up to the first one that throws
RECURSIVE RunSteps(_, _)
RunSteps(steps, done) ==
    IF steps = << >>
    THEN [threw |-> FALSE, cause |-> "none", ops |-> done]
    ELSE IF Head(steps).throws
    THEN [threw |-> TRUE, cause |-> Head(steps).cause, ops |-> done]
    ELSE RunSteps(Tail(steps), done \o Head(steps).ops)


(***************************************************************************)
(* The job.                                                                *)
(***************************************************************************)
(***************************************************************************)
(* The publisher's inputs: display file names, object names, queue rows.   *)
(***************************************************************************)
\* req.body.fileName holding the string s
FileName(s) == [t |-> "string", s |-> s]

\* req.body.fileName missing from the request
NoFileName == [t |-> "absent", s |-> << >>]

\* the characters a display file name is made of
NameChars == {"a", "Z", "7", ".", "_", "-", " ", "KOREAN"}

\* the display file names of the jobs: one with characters outside the
\* restricted set, and none
FileNames == {FileName(<<"KOREAN", " ", "7", ".", "a">>), NoFileName}

\* every display file name up to the bound
AllFileNames ==
    {FileName(n) : n \in UNION {[1..k -> NameChars] : k \in 0..MaxNameLen}}

\* the character class a-zA-Z0-9. of the replace
Allowed == {"a", "Z", "7", "."}

\* Mutant of Sanitize: a space is kept.
SanitizeKeepsSpaces(name) ==
    [i \in DOMAIN name |->
        IF name[i] \in Allowed \cup {" "} THEN name[i] ELSE "_"]

\* fileName.replace(/[^a-zA-Z0-9.]/g, "_")
Sanitize(name) ==
    [i \in DOMAIN name |-> IF name[i] \in Allowed THEN name[i] ELSE "_"]

\* new Date().getTime() as a string of digits
Timestamps == {<<"1">>, <<"2">>}

\* SECURE_${timestamp}_${sanitized file name}
SecureName(timestamp, name) ==
    <<"S", "E", "C", "U", "R", "E", "_">> \o timestamp \o <<"_">> \o Sanitize(name)

\* ${process.env.SUPABASE_URL}/storage/v1/object/public/legal-docs/${safeName}
publicUrl(name) ==
    <<"SUPABASE_URL", "/storage/v1/object/public/legal-docs/">> \o name

\* The row of the insert: the anchor-based version stores the object name
\* as filename, the other versions the display file name.
QueueRecord(v, fileName, name) ==
    [filename |-> IF v = "RealName" THEN name ELSE fileName,
     file_url |-> publicUrl(name),
     status |-> "pending",
     ai_result |-> "{}"]

NoRecord ==
    [filename |-> << >>, file_url |-> << >>, status |-> "none", ai_result |-> "none"]

\* upload(safeName, pdfBytes, {upsert: true}): the object of that name
\* now holds the bytes of the uploading job, whatever it held before
Upsert(objects, name, owner) ==
    {o \in objects : o.name # name} \cup {[name |-> name, owner |-> owner]}

\* page heights in points: A4, and a short page
Heights == {842, 200}

\* An inbound request with its environment; pages and height are those of
\* the document the payload decodes into.
Requests ==
    {r \in [method : {"POST", "GET"}, apiKey : BOOLEAN,
            payload : {"missing", "valid", "malformed"}, pages : 0..MaxPages,
            height : Heights, fileName : FileNames] :
        r.payload # "valid" =>
            (r.pages = 0 /\ r.height = 842 /\ r.fileName.t = "string")}

Init ==
    /\ version \in Versions
    /\ req \in Requests
    /\ (version \notin KeyCheckVersions \cup {"RawDebug"} => req.apiKey)
    /\ pc = "start"
    /\ response = << >>
    /\ attempts = << >>
    /\ aiStatus = "idle"
    /\ metaInfo = Unset
    /\ fontStatus = "idle"
    /\ fontResult = NoFont
    /\ docLoaded = FALSE
    /\ useFont = "none"
    /\ drawn = << >>
    /\ pdfBytes = "none"
    /\ uploaded = FALSE
    /\ inserted = "none"
    /\ wrapText = << >>
    /\ wrapMaxWidth = 0
    /\ wrapFont = "custom"
    /\ wrapLines = << >>
    /\ safeName = << >>
    /\ record = NoRecord
    /\ fileBase64 = << >>
    /\ cleanBase64 = << >>
    /\ bucket = {}
    /\ peerPc = "idle"
    /\ peerFileName = NoFileName
    /\ peerSafeName = << >>

\* res.status(status).json(...) followed by return
Respond(status, cause) ==
    /\ response' = Append(response, [status |-> status, cause |-> cause])
    /\ pc' = "done"

\* Mutant of Fail: the catch clause logs the error and sends nothing.
FailSilently(cause) ==
    /\ pc' = "done"
    /\ UNCHANGED response

\* the catch clause of the handler: res.status(500).json({error})
Fail(cause) == Respond(500, cause)

\* The state in which the handler reaches its first await once the request
\* is accepted: which requests are out and what the handler waits for.
StartTasks(v) ==
    CASE v = "Basic" ->
           [attempts |-> <<Request(MODELS_TO_TRY(v)[1], "extract")>>,
            ai |-> "pending", font |-> "idle", pc |-> "ai"]
      [] v = "Parallel" ->
           [attempts |-> <<Request(MODELS_TO_TRY(v)[1], "extract")>>,
            ai |-> "pending", font |-> "pending", pc |-> "join"]
      [] v = "Diagnosis" ->
           [attempts |-> <<Request(PingModel, "ping")>>,
            ai |-> "idle", font |-> "idle", pc |-> "ping"]
      [] v = "FinalDiagnosis" ->
           [attempts |-> <<Request(PingModel, "ping")>>,
            ai |-> "pending", font |-> "pending", pc |-> "join"]
      [] v = "RawDebug" ->
           [attempts |-> <<Request("models", "list")>>,
            ai |-> "idle", font |-> "idle", pc |-> "list"]
      [] OTHER ->
           [attempts |-> analyzeDoc(v, MODELS_TO_TRY(v), 1, << >>).attempts,
            ai |-> analyzeDoc(v, MODELS_TO_TRY(v), 1, << >>).status,
            font |-> "pending", pc |-> "join"]

\* The handler from its entry to its first await.
HandleRequest ==
    /\ pc = "start"
    /\ IF req.method # "POST"
       THEN /\ Respond(405, "method")
            /\ UNCHANGED <<attempts, aiStatus, fontStatus>>
       ELSE IF version \in KeyCheckVersions /\ ~req.apiKey
       THEN /\ Fail("config")
            /\ UNCHANGED <<attempts, aiStatus, fontStatus>>
       ELSE IF version # "RawDebug" /\ req.payload = "missing"
       THEN /\ Fail("input")
            /\ UNCHANGED <<attempts, aiStatus, fontStatus>>
       ELSE /\ attempts' = StartTasks(version).attempts
            /\ aiStatus' = StartTasks(version).ai
            /\ fontStatus' = StartTasks(version).font
            /\ pc' = StartTasks(version).pc
            /\ UNCHANGED response
    /\ UNCHANGED <<peerVars, wrapVars, cleanVars, safeName, record, version, req, metaInfo, fontResult, docLoaded, useFont, drawn,
                   pdfBytes, uploaded, inserted>>

\* the extractor of the version resumed by the outcome o of attempt i
ExtractorResume(v, att, i, o) ==
    IF v \in ChainVersions
    THEN analyzeDocResume(v, att, i, o)
    ELSE analysisPromise(att, i, o)

\* An AI request completes.  In the Diagnosis version the test request is
\* awaited by the handler itself, which then starts both tasks.
AiRespond ==
    \E i \in Pending(attempts), o \in Outcomes :
        LET r == ExtractorResume(version, attempts, i, o) IN
        /\ pc # "list"
        /\ attempts' = r.attempts
        /\ aiStatus' = r.status
        /\ metaInfo' = r.meta
        /\ IF pc = "ping"
           THEN /\ pc' = "join"
                /\ fontStatus' = "pending"
           ELSE UNCHANGED <<pc, fontStatus>>
        /\ UNCHANGED <<peerVars, wrapVars, cleanVars, safeName, record, version, req, response, fontResult, docLoaded, useFont,
                       drawn, pdfBytes, uploaded, inserted>>

\* RAW Debug Mode: the model list requested from the AI service with a
\* plain fetch comes back.  The handler answers 200 after a good response
\* and 500 otherwise; it never reads the payload.
ListModelsRespond ==
    /\ pc = "list"
    /\ \E ok \in BOOLEAN :
         /\ ok => req.apiKey
         /\ attempts' = [attempts EXCEPT ![1].result = IF ok THEN "done" ELSE "failed"]
         /\ IF ok THEN Respond(200, "diagnosis") ELSE Respond(500, "apiKey")
    /\ UNCHANGED <<peerVars, wrapVars, cleanVars, safeName, record, version, req, aiStatus,
                   metaInfo, fontStatus, fontResult, docLoaded, useFont, drawn,
                   pdfBytes, uploaded, inserted>>

\* The font fetch completes.
FontRespond ==
    \E o \in FontOutcomes :
        /\ fontStatus = "pending"
        /\ fontStatus' = FontTask(version, o).status
        /\ fontResult' = FontTask(version, o).value
        /\ UNCHANGED <<peerVars, wrapVars, cleanVars, safeName, record, version, req, pc, response, attempts, aiStatus, metaInfo,
                       docLoaded, useFont, drawn, pdfBytes, uploaded, inserted>>

\* Mutant of Awaited: the join also waits for a promise that nothing
\* settles.
AwaitedJoinNeverSettles ==
    CASE pc = "join" -> {aiStatus, fontStatus, "pending"}
      [] pc = "ai" -> {aiStatus}
      [] pc = "font" -> {fontStatus}
      [] OTHER -> {}

\* Mutant of Awaited: the join waits for the extraction only.
AwaitedExtractionOnly ==
    CASE pc = "join" -> {aiStatus}
      [] pc = "ai" -> {aiStatus}
      [] pc = "font" -> {fontStatus}
      [] OTHER -> {}

\* the promises the handler is waiting for at its await
Awaited ==
    CASE pc = "join" -> {aiStatus, fontStatus}
      [] pc = "ai" -> {aiStatus}
      [] pc = "font" -> {fontStatus}
      [] OTHER -> {}

\* An awaited promise rejected: the await throws into the handler's catch.
AwaitRejected ==
    /\ pc \in {"join", "ai", "font"}
    /\ "rejected" \in Awaited
    /\ Fail(IF pc = "font" \/ (pc = "join" /\ aiStatus # "rejected")
            THEN "fontFetch" ELSE "aiRequest")
    /\ UNCHANGED <<peerVars, wrapVars, cleanVars, safeName, record, version, req, attempts, aiStatus, metaInfo, fontStatus,
                   fontResult, docLoaded, useFont, drawn, pdfBytes, uploaded,
                   inserted>>

\* Every awaited promise resolved: the handler goes on.
AwaitResolved ==
    /\ pc \in {"join", "ai", "font"}
    /\ Awaited = {"resolved"}
    /\ pc' = IF pc = "font" THEN "embed" ELSE "load"
    /\ UNCHANGED <<peerVars, wrapVars, cleanVars, safeName, record, version, req, response, attempts, aiStatus, metaInfo,
                   fontStatus, fontResult, docLoaded, useFont, drawn, pdfBytes,
                   uploaded, inserted>>

\* PDFDocument.load; the Basic version fetches the font only now.
LoadDocument ==
    /\ pc = "load"
    /\ IF req.payload = "malformed"
       THEN /\ Fail("input")
            /\ UNCHANGED <<docLoaded, fontStatus>>
       ELSE /\ docLoaded' = TRUE
            /\ pc' = IF version = "Basic" THEN "font" ELSE "embed"
            /\ fontStatus' = IF version = "Basic" THEN "pending" ELSE fontStatus
            /\ UNCHANGED response
    /\ UNCHANGED <<peerVars, wrapVars, cleanVars, safeName, record, version, req, attempts, aiStatus, metaInfo, fontResult,
                   useFont, drawn, pdfBytes, uploaded, inserted>>

\* the font the handler embeds for a font result
FontChoice(f) == IF f.type = "standard" THEN "standard" ELSE "custom"

\* pdfDoc.embedFont: bytes that are no font make fontkit throw.
EmbedFont ==
    /\ pc = "embed"
    /\ IF fontResult.fontData = "errorPage"
       THEN /\ Fail("fontBytes")
            /\ UNCHANGED useFont
       ELSE /\ useFont' = FontChoice(fontResult)
            /\ pc' = "draw"
            /\ UNCHANGED response
    /\ UNCHANGED <<peerVars, wrapVars, cleanVars, safeName, record, version, req, attempts, aiStatus, metaInfo, fontStatus,
                   fontResult, docLoaded, drawn, pdfBytes, uploaded, inserted>>

\* Masks, title and fields, drawn without an await in between.
Draw ==
    /\ pc = "draw"
    /\ LET r == RunSteps(RenderSteps(version, metaInfo, useFont, req.pages, req.height), << >>) IN
       /\ drawn' = r.ops
       /\ IF r.threw
          THEN Fail(r.cause)
          ELSE pc' = "save" /\ UNCHANGED response
    /\ UNCHANGED <<peerVars, wrapVars, cleanVars, safeName, record, version, req, attempts, aiStatus, metaInfo, fontStatus,
                   fontResult, docLoaded, useFont, pdfBytes, uploaded, inserted>>

\* pdfDoc.save()
Save ==
    /\ pc = "save"
    /\ pdfBytes' = "bytes"
    /\ pc' = "upload"
    /\ UNCHANGED <<peerVars, wrapVars, cleanVars, safeName, record, version, req, response, attempts, aiStatus, metaInfo,
                   fontStatus, fontResult, docLoaded, useFont, drawn, uploaded,
                   inserted>>

\* Mutant of Upload: an upload error is not thrown, the handler goes on
\* to the insert.
UploadIgnoresError ==
    /\ pc = "upload"
    /\ IF req.fileName.t = "absent"
       THEN /\ Fail("input")
            /\ UNCHANGED <<uploaded, safeName, bucket>>
       ELSE \E timestamp \in Timestamps, ok \in BOOLEAN :
              /\ safeName' = SecureName(timestamp, req.fileName.s)
              /\ uploaded' = ok
              /\ bucket' = IF ok THEN Upsert(bucket, safeName', "job") ELSE bucket
              /\ pc' = "insert"
              /\ UNCHANGED response
    /\ UNCHANGED <<peerPc, peerFileName, peerSafeName, wrapVars, cleanVars, record, version, req, attempts, aiStatus,
                   metaInfo, fontStatus, fontResult, docLoaded, useFont, drawn,
                   pdfBytes, inserted>>

\* The object name is built from the time and the display file name (a
\* missing file name has no replace method); supabase.storage.upload: an
\* upload error is thrown
Upload ==
    /\ pc = "upload"
    /\ IF req.fileName.t = "absent"
       THEN /\ Fail("input")
            /\ UNCHANGED <<uploaded, safeName, bucket>>
       ELSE \E timestamp \in Timestamps, ok \in BOOLEAN :
              /\ safeName' = SecureName(timestamp, req.fileName.s)
              /\ IF ok
                 THEN /\ uploaded' = TRUE
                      /\ bucket' = Upsert(bucket, safeName', "job")
                      /\ pc' = "insert"
                      /\ UNCHANGED response
                 ELSE Fail("publisher") /\ UNCHANGED <<uploaded, bucket>>
    /\ UNCHANGED <<peerPc, peerFileName, peerSafeName, wrapVars, cleanVars, record, version, req, attempts, aiStatus,
                   metaInfo, fontStatus, fontResult, docLoaded, useFont, drawn,
                   pdfBytes, inserted>>

\* document_queue insert; its result is not looked at, then the 200 response
Insert ==
    /\ pc = "insert"
    /\ \E o \in {"ok", "error"} : inserted' = o
    /\ record' = QueueRecord(version, req.fileName.s, safeName)
    /\ Respond(200, "none")
    /\ UNCHANGED <<peerVars, wrapVars, cleanVars, safeName, version, req, attempts, aiStatus,
                   metaInfo, fontStatus, fontResult, docLoaded, useFont, drawn,
                   pdfBytes, uploaded>>

Next ==
    \/ HandleRequest
    \/ AiRespond
    \/ ListModelsRespond
    \/ FontRespond
    \/ AwaitRejected
    \/ AwaitResolved
    \/ LoadDocument
    \/ EmbedFont
    \/ Draw
    \/ Save
    \/ Upload
    \/ Insert

Spec == Init /\ [][Next]_vars

\* The job when every external call eventually returns or fails and the
\* handler runs whenever it can: some step is taken whenever one is enabled.
\* Neither the page height nor the number of pages beyond the first plays
\* a part in whether a job ends: the jobs are those of Init whose document
\* has no page or one A4 page.
LiveInit == Init /\ req.height = 842 /\ req.pages <= 1

LiveSpec == LiveInit /\ [][Next]_vars /\ WF_vars(Next)

(***************************************************************************)
(* wordWrap on its own: one call with arguments drawn from the bounded     *)
(* sets, inside the drawing code of a job of the anchor-based version.     *)
(***************************************************************************)
WrapInit ==
    /\ version = "RealName"
    /\ req = [method |-> "POST", apiKey |-> TRUE, payload |-> "valid", pages |-> 1,
              height |-> 842, fileName |-> FileName(<<"a", ".", "a">>)]
    /\ pc = "wrap"
    /\ response = << >>
    /\ attempts = << >>
    /\ aiStatus = "resolved"
    /\ metaInfo = JsonValue("{full}")
    /\ fontStatus = "resolved"
    /\ fontResult = [fontData |-> "font", type |-> "custom"]
    /\ docLoaded = TRUE
    /\ useFont = "custom"
    /\ drawn = << >>
    /\ pdfBytes = "none"
    /\ uploaded = FALSE
    /\ inserted = "none"
    /\ wrapText \in Texts
    /\ wrapMaxWidth \in 0..MaxWidth
    /\ wrapFont \in Fonts
    /\ wrapLines = << >>
    /\ safeName = << >>
    /\ record = NoRecord
    /\ fileBase64 = << >>
    /\ cleanBase64 = << >>
    /\ bucket = {}
    /\ peerPc = "idle"
    /\ peerFileName = NoFileName
    /\ peerSafeName = << >>

\* the call wordWrap(text, maxWidth, font, fontSize) returns
WordWrap ==
    /\ pc = "wrap"
    /\ wrapLines' = wordWrap(wrapText, wrapMaxWidth, wrapFont)
    /\ pc' = "wrapped"
    /\ UNCHANGED <<peerVars, wrapText, wrapMaxWidth, wrapFont, version, req, response,
                   attempts, aiStatus, metaInfo, fontStatus, fontResult,
                   docLoaded, useFont, drawn, pdfBytes, uploaded, inserted,
                   safeName, record, cleanVars>>

WrapNext == WordWrap

WrapSpec == WrapInit /\ [][WrapNext]_vars

(***************************************************************************)
(* The publisher on its own: a job of a version that has just serialized   *)
(* its document, with the display file name drawn from every name up to    *)
(* the bound.                                                              *)
(***************************************************************************)
NameInit ==
    /\ version \in {"RealName", "Diagnosis"}
    /\ req \in {[method |-> "POST", apiKey |-> TRUE, payload |-> "valid",
                  pages |-> 1, height |-> 842, fileName |-> f] :
                    f \in AllFileNames}
    /\ pc = "upload"
    /\ response = << >>
    /\ attempts =
          (IF version = "Diagnosis"
           THEN <<[model |-> PingModel, kind |-> "ping", result |-> "done",
                   value |-> Unset]>>
           ELSE << >>)
            \o <<[model |-> MODELS_TO_TRY(version)[1], kind |-> "extract",
                  result |-> "parsed", value |-> JsonValue("{full}")]>>
    /\ aiStatus = "resolved"
    /\ metaInfo = JsonValue("{full}")
    /\ fontStatus = "resolved"
    /\ fontResult = [fontData |-> "font", type |-> "custom"]
    /\ docLoaded = TRUE
    /\ useFont = "custom"
    /\ drawn = RunSteps(RenderSteps(version, metaInfo, useFont, 1, 842), << >>).ops
    /\ pdfBytes = "bytes"
    /\ uploaded = FALSE
    /\ inserted = "none"
    /\ wrapText = << >>
    /\ wrapMaxWidth = 0
    /\ wrapFont = "custom"
    /\ wrapLines = << >>
    /\ safeName = << >>
    /\ record = NoRecord
    /\ fileBase64 = << >>
    /\ cleanBase64 = << >>
    /\ bucket = {}
    /\ peerPc = "idle"
    /\ peerFileName = NoFileName
    /\ peerSafeName = << >>

NameNext ==
    \/ Upload
    \/ Insert

NameSpec == NameInit /\ [][NameNext]_vars

(***************************************************************************)
(* Two jobs at the publisher at the same time.  Each runs in its own       *)
(* invocation of the handler and reads the clock on its own; the bucket    *)
(* is the one thing they share.                                            *)
(***************************************************************************)
\* display file names of the two jobs: equal names, names that differ only
\* in characters the sanitizing replaces, and names that differ otherwise
PairFileNames ==
    {FileName(<<"a", " ", "a">>), FileName(<<"a", "_", "a">>),
     FileName(<<"a", ".", "a">>), FileName(<<"Z">>)}

PairInit ==
    /\ version \in {"RealName", "Parallel"}
    /\ req \in {[method |-> "POST", apiKey |-> TRUE, payload |-> "valid",
                  pages |-> 1, height |-> 842, fileName |-> f] :
                    f \in PairFileNames}
    /\ pc = "upload"
    /\ response = << >>
    /\ attempts = <<[model |-> MODELS_TO_TRY(version)[1], kind |-> "extract",
                     result |-> "parsed", value |-> JsonValue("{full}")]>>
    /\ aiStatus = "resolved"
    /\ metaInfo = JsonValue("{full}")
    /\ fontStatus = "resolved"
    /\ fontResult = [fontData |-> "font", type |-> "custom"]
    /\ docLoaded = TRUE
    /\ useFont = "custom"
    /\ drawn = RunSteps(RenderSteps(version, metaInfo, useFont, 1, 842), << >>).ops
    /\ pdfBytes = "bytes"
    /\ uploaded = FALSE
    /\ inserted = "none"
    /\ wrapText = << >>
    /\ wrapMaxWidth = 0
    /\ wrapFont = "custom"
    /\ wrapLines = << >>
    /\ safeName = << >>
    /\ record = NoRecord
    /\ fileBase64 = << >>
    /\ cleanBase64 = << >>
    /\ bucket = {}
    /\ peerPc = "upload"
    /\ peerFileName \in PairFileNames
    /\ peerSafeName = << >>

\* The other job builds its object name and uploads.
PeerUpload ==
    /\ peerPc = "upload"
    /\ \E timestamp \in Timestamps, ok \in BOOLEAN :
         /\ peerSafeName' = SecureName(timestamp, peerFileName.s)
         /\ IF ok
            THEN /\ bucket' = Upsert(bucket, peerSafeName', "peer")
                 /\ peerPc' = "uploaded"
            ELSE /\ peerPc' = "failed"
                 /\ UNCHANGED bucket
    /\ UNCHANGED <<peerFileName, wrapVars, cleanVars, safeName, record, version,
                   req, pc, response, attempts, aiStatus, metaInfo, fontStatus,
                   fontResult, docLoaded, useFont, drawn, pdfBytes, uploaded,
                   inserted>>

PairNext ==
    \/ Upload
    \/ Insert
    \/ PeerUpload

PairSpec == PairInit /\ [][PairNext]_vars

(***************************************************************************)
(* Payload cleaning on its own.  A payload is a sequence of tokens: the    *)
(* start of a data-URI header, the marker base64 with its comma, a base64  *)
(* character, and the white space characters.                              *)
(***************************************************************************)
WhiteSpace == {" ", "\n", "\r"}

PayloadTokens == {"data:application/pdf;", "base64,", "A"} \cup WhiteSpace

Payloads == UNION {[1..k -> PayloadTokens] : k \in 0..MaxPayloadLen}

\* str.split("base64,")[1]: what lies between the first marker and the next
SecondPiece(str) ==
    LET first == CHOOSE i \in DOMAIN str :
                     str[i] = "base64," /\ \A j \in 1..(i - 1) : str[j] # "base64,"
        rest == SubSeq(str, first + 1, Len(str))
    IN  IF \E i \in DOMAIN rest : rest[i] = "base64,"
        THEN SubSeq(rest, 1,
                    (CHOOSE i \in DOMAIN rest :
                         rest[i] = "base64," /\ \A j \in 1..(i - 1) : rest[j] # "base64,")
                      - 1)
        ELSE rest

\* if (str.includes("base64,")) str = str.split("base64,")[1]
StripHeader(str) ==
    IF \E i \in DOMAIN str : str[i] = "base64," THEN SecondPiece(str) ELSE str

\* str.replace(/[\r\n\s]/g, '')
StripWhiteSpace(str) == SelectSeq(str, LAMBDA c : c \notin WhiteSpace)

\* What each version hands to the AI service and to PDFDocument.load.
CleanPayload(v, str) ==
    CASE v \in {"RealName", "Diagnosis", "FinalDiagnosis"} ->
           StripWhiteSpace(StripHeader(str))
      [] v \in {"Parallel", "Sequential"} -> StripHeader(str)
      [] OTHER -> str

CleanInit ==
    /\ version \in Versions \ {"RawDebug"}
    /\ req = [method |-> "POST", apiKey |-> TRUE, payload |-> "valid", pages |-> 1,
              height |-> 842, fileName |-> FileName(<<"a", ".", "a">>)]
    /\ pc = "clean"
    /\ response = << >>
    /\ attempts = << >>
    /\ aiStatus = "idle"
    /\ metaInfo = Unset
    /\ fontStatus = "idle"
    /\ fontResult = NoFont
    /\ docLoaded = FALSE
    /\ useFont = "none"
    /\ drawn = << >>
    /\ pdfBytes = "none"
    /\ uploaded = FALSE
    /\ inserted = "none"
    /\ wrapText = << >>
    /\ wrapMaxWidth = 0
    /\ wrapFont = "custom"
    /\ wrapLines = << >>
    /\ safeName = << >>
    /\ record = NoRecord
    /\ fileBase64 \in Payloads
    /\ cleanBase64 = << >>
    /\ bucket = {}
    /\ peerPc = "idle"
    /\ peerFileName = NoFileName
    /\ peerSafeName = << >>

\* if (!fileBase64) throw ...; then the cleaning of the version
Clean ==
    /\ pc = "clean"
    /\ IF fileBase64 = << >>
       THEN Fail("input") /\ UNCHANGED cleanBase64
       ELSE /\ cleanBase64' = CleanPayload(version, fileBase64)
            /\ pc' = "cleaned"
            /\ UNCHANGED response
    /\ UNCHANGED <<peerVars, wrapVars, fileBase64, safeName, record, version, req, attempts,
                   aiStatus, metaInfo, fontStatus, fontResult, docLoaded, useFont,
                   drawn, pdfBytes, uploaded, inserted>>

CleanNext == Clean

CleanSpec == CleanInit /\ [][CleanNext]_vars


(***************************************************************************)
(* Properties.                                                             *)
(***************************************************************************)
ExtractAttempts(att) == SelectSeq(att, LAMBDA a : a.kind = "extract")

\* every candidate of the list was asked and none yielded a value
Exhausted ==
    /\ aiStatus = "resolved"
    /\ ExtractCount(attempts) = Len(MODELS_TO_TRY(version))
    /\ \A i \in DOMAIN attempts :
         attempts[i].kind = "extract" => attempts[i].result \in {"failed", "unparsed"}

\* the handler has gone past the join into the rendering part
Rendering ==
    \/ docLoaded
    \/ useFont # "none"
    \/ drawn # << >>
    \/ pc \in {"load", "embed", "draw", "save", "upload", "insert"}

\* C1: the extractor never raises to its caller: whatever the candidates'
\* outcomes, the extraction promise resolves (to a parsed result or to the
\* sentinel), so that no job is answered with a failure because an AI
\* request failed.  Stated for the versions whose extractors the claim
\* names: analyzeDoc, analysisPromise and analyzeWithFallback.
C1_ExtractorNeverRaises ==
    version \in {"RealName", "Parallel", "Sequential"} =>
        \A i \in DOMAIN response :
            ~(response[i].status = 500 /\ response[i].cause = "aiRequest")

\* C2: first success wins: the candidates are asked in the order of
\* MODELS_TO_TRY, and an attempt whose response parsed is the last request
\* of the job, its parsed value being what the extractor resolved to.
C2_FirstSuccessWins ==
    LET ex == ExtractAttempts(attempts) IN
    /\ Len(ex) <= Len(MODELS_TO_TRY(version))
    /\ \A j \in DOMAIN ex : ex[j].model = MODELS_TO_TRY(version)[j]
    /\ \A i \in DOMAIN attempts :
         attempts[i].result = "parsed" =>
            /\ i = Len(attempts)
            /\ aiStatus = "resolved"
            /\ metaInfo = attempts[i].value
            /\ metaInfo \in {JsonValue(t) : t \in JsonTexts}

\* C2 witness: the second candidate's response parsed after the first
\* failed, the job is over and the two later candidates were never asked.
C2_Witness ==
    /\ version = "RealName"
    /\ pc = "done"
    /\ Len(attempts) = 2
    /\ attempts[1].result \in {"failed", "unparsed"}
    /\ attempts[2].result = "parsed"

\* C3: the attempts are strictly sequential: at most one AI request is in
\* flight, and every request but the latest has completed without yielding
\* a value.
C3_SequentialAttempts ==
    /\ Cardinality(Pending(attempts)) <= 1
    /\ \A i \in DOMAIN attempts :
         i < Len(attempts) =>
            \/ attempts[i].result \in {"failed", "unparsed"}
            \/ attempts[i].kind = "ping" /\ attempts[i].result = "done"

\* C3 witness: the last of the seven candidates is in flight after the six
\* before it failed.
C3_Witness ==
    /\ version = "Sequential"
    /\ Len(attempts) = 7
    /\ attempts[7].result = "pending"

\* C4 as claimed: within one job no model identifier receives two requests
\* and the job issues at most as many AI requests as there are candidates.
C4_OneRequestPerModel ==
    /\ \A i, j \in DOMAIN attempts :
         i # j => attempts[i].model # attempts[j].model
    /\ Len(attempts) <= Len(MODELS_TO_TRY(version))

\* C4 amended: the fallback loop sends each candidate at most one
\* extraction request, so a job issues at most as many extraction requests
\* as there are candidates; the diagnosis versions issue one request more,
\* a test request to gemini-1.5-flash sent before the loop.
C4_OneExtractionPerCandidate ==
    /\ \A i, j \in DOMAIN attempts :
         (i # j /\ attempts[i].kind = "extract" /\ attempts[j].kind = "extract")
            => attempts[i].model # attempts[j].model
    /\ ExtractCount(attempts) <= Len(MODELS_TO_TRY(version))
    /\ \A i \in DOMAIN attempts :
         attempts[i].kind = "ping" =>
            /\ i = 1
            /\ attempts[i].model = PingModel
            /\ version \in {"Diagnosis", "FinalDiagnosis"}
    /\ Len(attempts) <= Len(MODELS_TO_TRY(version)) + 1

\* C4 witness: a diagnosis job in which the test request and all four
\* candidates were asked.
C4_Witness ==
    /\ version = "FinalDiagnosis"
    /\ Len(attempts) = 5
    /\ Exhausted

\* C5: a response that does not parse after the fences are stripped is a
\* failure of that candidate only: the next candidate is asked (or the list
\* is exhausted), and the empty default record is not returned.
C5_UnparsedContinues ==
    version \in {"RealName", "Sequential", "Parallel"} =>
        \A i \in DOMAIN attempts :
            attempts[i].result = "unparsed" =>
               /\ i < Len(attempts) \/ Exhausted
               /\ ~(aiStatus = "resolved" /\ metaInfo = EmptyMeta)

C7_OnlyInputAndPublisherFail ==
    (version = "RealName" /\ req.pages >= 1) =>
        \A i \in DOMAIN response :
            response[i].status = 500 =>
                response[i].cause \in {"input", "config", "publisher"}

\* C8: rendering starts only at the join: the document is not loaded, no
\* font is embedded and nothing is drawn until both the extraction task
\* and the font task have completed.
C8_RenderAfterJoin ==
    (version # "Basic" /\ Rendering) =>
        aiStatus = "resolved" /\ fontStatus = "resolved"

\* C8 witness: masks and text are drawn in the anchor-based version.
C8_Witness ==
    /\ version = "RealName"
    /\ docLoaded
    /\ drawn # << >>
    /\ Len(attempts) > 1

\* C9: extraction and font resolution are independent: the failure of one
\* task does not stop the job, which reaches rendering whatever the two
\* tasks' outcomes.  Stated for the versions whose font tasks the claim
\* names: loadFont and the two fontPromise.
C9_TaskFailureDoesNotStopJob ==
    version \in {"RealName", "Parallel", "Sequential"} =>
        \A i \in DOMAIN response :
            ~(response[i].status = 500 /\ response[i].cause = "fontFetch")

\* C10: the font resolver never raises: after a network error or a non-2xx
\* status it returns absent bytes with kind standard, and fetched bytes
\* only of a 2xx response.
C10_FontResolverNeverRaises ==
    version \in LoadFontVersions \cup {"Basic"} =>
        /\ fontStatus # "rejected"
        /\ fontStatus = "resolved" =>
              /\ fontResult.fontData \in {"null", "font"}
              /\ fontResult.fontData = "null" <=> fontResult.type = "standard"

\* the mask operations among the drawing operations applied so far
Masks == SelectSeq(drawn, LAMBDA o : o.op = "mask")

\* the anchor-based version has run its loop over the pages
MaskLoopRan ==
    /\ version = "RealName"
    /\ useFont # "none"
    /\ pc # "draw"
    /\ metaInfo.kind # "null"

\* C11: with the fallback font the renderer still completes: the job is
\* not answered with a failure because the title or a field could not be
\* drawn with that font.
C11_FallbackFontStillRenders ==
    (version \in {"RealName", "Diagnosis"} /\ fontResult.type = "standard") =>
        \A i \in DOMAIN response :
            ~(response[i].status = 500
                /\ response[i].cause \in {"encoding", "fieldEncoding"})

\* C12: a drawing failure of one field is confined to that field: it does
\* not abort the render, so no job is answered with a failure that arose
\* while a field was drawn.
C12_FieldFailureConfined ==
    version \in {"RealName", "Diagnosis"} =>
        \A i \in DOMAIN response :
            ~(response[i].status = 500
                /\ response[i].cause \in {"fieldEncoding", "fieldValue"})

\* C13: page-index normalization: when the reported anchor page is absent,
\* negative or not an integer, the masks are exactly one partial-top mask
\* on page 0.
C13_AnchorPageNormalized ==
    (/\ MaskLoopRan
     /\ req.pages >= 1
     /\ \/ metaInfo.maskEndPage.t \in {"absent", "half", "string"}
        \/ metaInfo.maskEndPage.t = "number" /\ metaInfo.maskEndPage.n < 0)
        => /\ Len(Masks) = 1
           /\ Masks[1].page = 0
           /\ Masks[1].what = "partial"

\* C14: ratio normalization: the ratio used before the margin is added is
\* always a number in (0, 1], whatever ratio was reported.
C14_RatioNormalized ==
    MaskLoopRan =>
        /\ reportedRatio(metaInfo).t = "number"
        /\ reportedRatio(metaInfo).n \in 1..100

\* C15: safety margin: for a reported ratio r in (0, 1] the partial mask
\* on the anchor page has height min(r + 0.05, 1.0) of the page height,
\* and no mask is higher than the page.
C15_SafetyMargin ==
    (/\ MaskLoopRan
     /\ metaInfo.maskEndRatio.t = "number"
     /\ metaInfo.maskEndRatio.n \in 1..100)
        => \A j \in DOMAIN Masks :
             /\ Masks[j].height <= 100
             /\ Masks[j].what = "partial" =>
                   Masks[j].height =
                      (IF metaInfo.maskEndRatio.n + 5 < 100
                       THEN metaInfo.maskEndRatio.n + 5 ELSE 100)

\* C15 witness: a reported ratio of 0.96 gave a partial mask of the whole
\* page height.
C15_Witness ==
    /\ MaskLoopRan
    /\ metaInfo.maskEndRatio = Num(96)
    /\ \E j \in DOMAIN Masks : Masks[j].what = "partial" /\ Masks[j].height = 100

\* C16: anchor beyond the document: a reported page index >= pageCount is
\* clamped to the last page: every earlier page gets a full-page mask and
\* the last page gets the partial-top mask.
C16_AnchorBeyondClamped ==
    (/\ MaskLoopRan
     /\ req.pages >= 1
     /\ metaInfo.maskEndPage.t = "number"
     /\ metaInfo.maskEndPage.n - 1 >= req.pages)
        => /\ Len(Masks) = req.pages
           /\ \A j \in 1..(req.pages - 1) :
                 Masks[j].page = j - 1 /\ Masks[j].what = "full"
           /\ Masks[req.pages].page = req.pages - 1
           /\ Masks[req.pages].what = "partial"

\* C17: pages after the anchor page are never masked: no mask is drawn on
\* a page whose index is greater than the normalized anchor page index
\* (0 for an absent, negative or non-integer anchor, the last page for an
\* anchor beyond the document).
C17_NoMaskAfterAnchor ==
    MaskLoopRan =>
        LET p == metaInfo.maskEndPage
            anchor == IF p.t # "number" \/ p.n - 1 < 0 THEN 0
                      ELSE IF p.n - 1 >= req.pages THEN req.pages - 1
                      ELSE p.n - 1
        IN  \A j \in DOMAIN Masks : Masks[j].page <= anchor

\* C18: mask plan invariant: for a document with at least one page the
\* applied masks contain exactly one partial-top mask, it is the last
\* one, and the masks before it are full-page masks on strictly smaller
\* page indices in increasing order.
C18_MaskPlanInvariant ==
    (MaskLoopRan /\ req.pages >= 1) =>
        /\ Masks # << >>
        /\ Masks[Len(Masks)].what = "partial"
        /\ \A j \in 1..(Len(Masks) - 1) :
              /\ Masks[j].what = "full"
              /\ Masks[j].page < Masks[j + 1].page

\* C19: degenerate document: when the loaded document has no page,
\* nothing is drawn, the document is not serialized, nothing is uploaded,
\* and the job ends with a failure response.
C19_ZeroPagesFatal ==
    (docLoaded /\ req.pages = 0) =>
        /\ drawn = << >>
        /\ pdfBytes = "none"
        /\ ~uploaded
        /\ inserted = "none"
        /\ pc \notin {"save", "upload", "insert"}
        /\ pc = "done" =>
              /\ Len(response) = 1
              /\ response[1].status = 500

\* C19 witness: the anchor-based version loaded a document without pages,
\* got as far as the drawing code and answered with a failure.
C19_Witness ==
    /\ version = "RealName"
    /\ docLoaded
    /\ req.pages = 0
    /\ useFont # "none"
    /\ pc = "done"
    /\ response = <<[status |-> 500, cause |-> "input"]>>

\* a line made of more than one word: the words of a line are joined by
\* single spaces
SeveralWords(line) == \E i \in DOMAIN line : line[i] = " "

\* C20: wordWrap width bound: every returned line that contains more than
\* one word has measured width <= maxWidth; only a line made of a single
\* word may exceed maxWidth.
C20_WrapWidthBound ==
    pc = "wrapped" =>
        \A j \in DOMAIN wrapLines :
            \/ widthOfTextAtSize(wrapFont, wrapLines[j]) <= wrapMaxWidth
            \/ ~SeveralWords(wrapLines[j])

\* C20 witness: a call that returned a line of several words next to a
\* single word wider than maxWidth.
C20_Witness ==
    /\ pc = "wrapped"
    /\ \E j \in DOMAIN wrapLines :
          \E i \in 2..(Len(wrapLines[j]) - 1) :
              /\ wrapLines[j][i] = " "
              /\ wrapLines[j][i - 1] # " "
              /\ wrapLines[j][i + 1] # " "
    /\ \E j \in DOMAIN wrapLines :
          /\ ~SeveralWords(wrapLines[j])
          /\ widthOfTextAtSize(wrapFont, wrapLines[j]) > wrapMaxWidth

\* the strings of a sequence joined with single spaces
RECURSIVE JoinWithSpaces(_)
JoinWithSpaces(strs) ==
    IF strs = << >> THEN << >>
    ELSE IF Len(strs) = 1 THEN strs[1]
    ELSE strs[1] \o <<" ">> \o JoinWithSpaces(Tail(strs))

\* the words of a string that are not empty, in order
WordsOf(str) == SelectSeq(Split(str), LAMBDA w : w # << >>)

\* C21: wordWrap round-trip: for a non-empty text, the returned lines
\* joined with single spaces give back the words of the text in their
\* order, none dropped, duplicated or split (the joined lines are the text
\* itself with each newline turned into a space).
C21_WrapRoundTrip ==
    (pc = "wrapped" /\ wrapText # << >>) =>
        /\ JoinWithSpaces(wrapLines) = ReplaceNewlines(wrapText)
        /\ WordsOf(JoinWithSpaces(wrapLines)) = WordsOf(ReplaceNewlines(wrapText))
        /\ Split(JoinWithSpaces(wrapLines)) = Split(ReplaceNewlines(wrapText))

\* C21 witness: a text of three words, one of them on a line of its own
\* after a newline, was wrapped into more than one line.
C21_Witness ==
    /\ pc = "wrapped"
    /\ Len(WordsOf(ReplaceNewlines(wrapText))) = 3
    /\ \E i \in DOMAIN wrapText : wrapText[i] = "\n"
    /\ Len(wrapLines) >= 2
    /\ \E j \in DOMAIN wrapLines : SeveralWords(wrapLines[j])

\* the fields of the anchor-based version in the order they are drawn
FieldNames == <<"court", "caseNo", "parties", "lawyer", "order", "claim">>

\* the content lines drawn for a field, in order
FieldLines(name) ==
    SelectSeq(drawn, LAMBDA o : /\ o.op = "text"
                                /\ o.what \in {"line", "placeholder"}
                                /\ o.field = name)

\* the vertical position at which something of a field was drawn
DrawnAt(what, name) ==
    drawn[CHOOSE i \in DOMAIN drawn :
              /\ drawn[i].op = "text"
              /\ drawn[i].what = what
              /\ drawn[i].field = name].y

\* C22: wordWrap returns no line for an empty text, and for a field whose
\* content is empty or absent drawField draws exactly one placeholder
\* line, on the line of the label, and moves the cursor down by one line
\* height plus the paragraph gap: the next field starts 16 + 5 below, a
\* heading a further 10 below.
C22_EmptyFieldPlaceholder ==
    /\ \A w \in 0..MaxWidth, f \in Fonts : wordWrap(<< >>, w, f) = << >>
    /\ (version = "RealName" /\ pdfBytes = "bytes") =>
          \A k \in DOMAIN FieldNames :
              Falsy(metaInfo[FieldNames[k]]) =>
                 /\ Len(FieldLines(FieldNames[k])) = 1
                 /\ FieldLines(FieldNames[k])[1].what = "placeholder"
                 /\ FieldLines(FieldNames[k])[1].y = DrawnAt("label", FieldNames[k])
                 /\ k \in 1..3 =>
                       DrawnAt("label", FieldNames[k + 1])
                          = DrawnAt("label", FieldNames[k]) - (16 + 5)
                 /\ k \in 4..5 =>
                       DrawnAt("heading", FieldNames[k + 1])
                          = DrawnAt("label", FieldNames[k]) - (16 + 5) - 10

\* C22 witness: a rendered document whose parties are absent and whose
\* lawyer is the empty string.
C22_Witness ==
    /\ version = "RealName"
    /\ pdfBytes = "bytes"
    /\ metaInfo.parties = "absent"
    /\ metaInfo.lawyer = "empty"
    /\ Len(FieldLines("parties")) = 1

\* C23: render order: nothing is drawn before a font is embedded, every
\* mask is drawn before any text, the document is serialized after the
\* title and the fields were drawn, and once it is serialized it is
\* neither drawn on nor serialized again.
C23_RenderOrder ==
    /\ [](/\ \A i, j \in DOMAIN drawn :
               (drawn[i].op = "text" /\ drawn[j].op = "mask") => j < i
          /\ drawn # << >> => useFont # "none"
          /\ pdfBytes = "bytes" =>
                /\ useFont # "none"
                /\ pc \in {"upload", "insert", "done"}
                /\ \E i \in DOMAIN drawn : drawn[i].what = "title")
    /\ [][pdfBytes = "bytes" => (pdfBytes' = "bytes" /\ drawn' = drawn)]_vars

\* C23 witness: a two-page document was given a full mask and a partial
\* mask, then its text, and was serialized.
C23_Witness ==
    /\ version = "RealName"
    /\ req.pages = 2
    /\ Len(Masks) = 2
    /\ Len(drawn) > 10
    /\ pdfBytes = "bytes"

\* C24: bottom-margin cut-off: no text is drawn at a vertical position
\* below the bottom of the first page, however many lines the fields
\* produce.
C24_NoTextBelowBottom ==
    version = "RealName" =>
        \A i \in DOMAIN drawn : drawn[i].op = "text" => drawn[i].y >= 0

\* C25: a malformed payload ends the job with a fatal input error, and in
\* that job no AI request and no font request was issued.
C25_MalformedNoRequests ==
    (/\ version = "RealName"
     /\ req.method = "POST"
     /\ req.apiKey
     /\ req.payload = "malformed"
     /\ pc = "done") =>
        /\ response = <<[status |-> 500, cause |-> "input"]>>
        /\ attempts = << >>
        /\ fontStatus = "idle"

\* C26: a missing payload is fatal at once: the handler answers with a
\* failure response, and no AI request, font request, upload or insert
\* is issued in that job.
C26_MissingPayloadFatal ==
    (/\ version \in {"RealName", "Diagnosis", "RawDebug"}
     /\ req.method = "POST"
     /\ req.payload = "missing"
     /\ pc = "done")
        => /\ Len(response) = 1
           /\ response[1].status = 500
           /\ attempts = << >>
           /\ fontStatus = "idle"
           /\ ~uploaded
           /\ inserted = "none"

\* C27: publisher failure is fatal: a success response is sent only when
\* both the upload and the insert were accepted.
C27_SuccessOnlyIfPublished ==
    version \in {"RealName", "Diagnosis"} =>
        \A i \in DOMAIN response :
            response[i].status = 200 => (uploaded /\ inserted = "ok")

\* C28 as claimed: the object name handed to the storage consists only of
\* letters, digits and dots.
C28_NameLettersDigitsDot ==
    \A i \in DOMAIN safeName :
        safeName[i] \in {"a", "Z", "S", "E", "C", "U", "R", "7", "1", "2", "."}

\* C28 amended: the object name handed to the storage consists only of
\* letters, digits, dots and underscores: it is SECURE_, the time in
\* digits, an underscore, and the display file name in which every
\* character other than a letter, a digit or a dot is replaced by an
\* underscore.
C28_NameRestrictedSet ==
    safeName # << >> =>
        /\ \A i \in DOMAIN safeName :
              safeName[i] \in {"a", "Z", "S", "E", "C", "U", "R", "7", "1", "2",
                               ".", "_"}
        /\ Len(safeName) = 7 + 1 + 1 + Len(req.fileName.s)
        /\ SubSeq(safeName, 1, 7) = <<"S", "E", "C", "U", "R", "E", "_">>
        /\ safeName[8] \in {"1", "2"}
        /\ safeName[9] = "_"
        /\ \A i \in DOMAIN req.fileName.s :
              safeName[9 + i] =
                 (IF req.fileName.s[i] \in {"a", "Z", "7", "."}
                  THEN req.fileName.s[i] ELSE "_")

\* C28 witness: a display file name with a space and a non-Latin
\* character was uploaded under its object name.
C28_Witness ==
    /\ uploaded
    /\ \E i, j \in DOMAIN req.fileName.s :
          req.fileName.s[i] = " " /\ req.fileName.s[j] = "KOREAN"
    /\ \E i \in DOMAIN req.fileName.s : req.fileName.s[i] = "a"
    /\ safeName # << >>

\* C29: the queue record of a job carries the display file name as
\* received, the URL of the object this job uploaded, the status pending
\* and an empty result.
C29_QueueRecord ==
    (version \in {"RealName", "Diagnosis"} /\ inserted # "none") =>
        /\ record.filename = req.fileName.s
        /\ record.file_url = publicUrl(safeName)
        /\ record.status = "pending"
        /\ record.ai_result = "{}"

\* C30: payload cleaning: the string handed to the AI service and to the
\* document loader contains no data-URI header and no white space.
C30_PayloadCleaned ==
    (version \in {"RealName", "Parallel", "Sequential"} /\ pc = "cleaned") =>
        \A i \in DOMAIN cleanBase64 :
            cleanBase64[i] \notin {"base64,", " ", "\n", "\r"}

\* the text operations of the rendered first page, in drawing order, as
\* pairs of what was drawn and for which field
TextPlan == [i \in DOMAIN SelectSeq(drawn, LAMBDA o : o.op = "text") |->
                <<SelectSeq(drawn, LAMBDA o : o.op = "text")[i].what,
                  SelectSeq(drawn, LAMBDA o : o.op = "text")[i].field>>]

\* scenario 1: a rendered single-page document of the anchor-based
\* version whose extraction reports court, case number, parties and
\* counsel, and an anchor on the first page with ratio 0.4
Scenario1 ==
    /\ version = "RealName"
    /\ req.pages = 1
    /\ metaInfo = JsonValue("{scenario1}")
    /\ pdfBytes = "bytes"

\* C31 as claimed: in scenario 1 the render draws exactly one mask, a
\* partial-top mask of 45% of the page height, one title line, and exactly
\* the four fields court, case number, parties and counsel.
C31_Scenario1FourFields ==
    Scenario1 =>
        /\ Masks = <<Op("mask", 0, "partial", 45)>>
        /\ TextPlan[1] = <<"title", "title">>
        /\ {TextPlan[i][2] : i \in DOMAIN TextPlan} \ {"title"}
              = {"court", "caseNo", "parties", "lawyer"}

\* C31 amended: in scenario 1 the render draws exactly one mask, a
\* partial-top mask of 45% of the page height, and then, below one title
\* line, the four fields court, case number, parties and counsel, each a
\* label and one content line, followed by the heading of the order and
\* the heading of the claim, each with a field that shows the placeholder
\* because the extraction reported no such summary.
C31_Scenario1SixFields ==
    Scenario1 =>
        /\ Masks = <<Op("mask", 0, "partial", 45)>>
        /\ TextPlan =
              << <<"title", "title">>,
                 <<"label", "court">>, <<"line", "court">>,
                 <<"label", "caseNo">>, <<"line", "caseNo">>,
                 <<"label", "parties">>, <<"line", "parties">>,
                 <<"label", "lawyer">>, <<"line", "lawyer">>,
                 <<"heading", "order">>,
                 <<"label", "order">>, <<"placeholder", "order">>,
                 <<"heading", "claim">>,
                 <<"label", "claim">>, <<"placeholder", "claim">> >>
        /\ \A i \in 3..Len(drawn) : drawn[i].y < drawn[2].y

\* C31 witness: scenario 1 was rendered with the fetched font and its
\* document published.
C31_Witness ==
    /\ Scenario1
    /\ useFont = "custom"
    /\ Len(Masks) = 1
    /\ pc = "done"
    /\ uploaded

\* scenario 2: a rendered three-page document of the anchor-based version
\* whose extraction reports the second page as anchor, with ratio 0.1
Scenario2 ==
    /\ version = "RealName"
    /\ req.pages = 3
    /\ metaInfo = JsonValue("{page2}")
    /\ pdfBytes = "bytes"

\* C32: in scenario 2 page 0 receives a full-page mask, page 1 a
\* partial-top mask of 15% of its height, and page 2 no mask.
C32_Scenario2Masks ==
    Scenario2 =>
        /\ Masks = <<Op("mask", 0, "full", 100), Op("mask", 1, "partial", 15)>>
        /\ \A i \in DOMAIN drawn : drawn[i].op = "mask" => drawn[i].page # 2

\* C32 witness: scenario 2 was rendered: two masks were drawn on a
\* three-page document.
C32_Witness ==
    /\ Scenario2
    /\ Len(Masks) = 2
    /\ \E i \in DOMAIN drawn : drawn[i].op = "text"

\* the first k words of a line, joined with single spaces
LinePrefix(line, k) == JoinWithSpaces(SubSeq(Split(line), 1, k))

\* C33: wordWrap is greedy: within a returned line every word after the
\* first was appended because the line so far plus a space plus the word
\* measured strictly under maxWidth, and no line but the last could have
\* accepted the first word of the line that follows it.
C33_WrapGreedy ==
    pc = "wrapped" =>
        /\ \A j \in DOMAIN wrapLines :
              \A k \in 1..(Len(Split(wrapLines[j])) - 1) :
                  widthOfTextAtSize(wrapFont,
                      LinePrefix(wrapLines[j], k) \o <<" ">>
                          \o Split(wrapLines[j])[k + 1]) < wrapMaxWidth
        /\ \A j \in 1..(Len(wrapLines) - 1) :
              widthOfTextAtSize(wrapFont,
                  wrapLines[j] \o <<" ">> \o Split(wrapLines[j + 1])[1])
                >= wrapMaxWidth

\* C33 witness: a call that appended a word to a line, committed that
\* line, and started the next line with a word that would have fitted
\* the line after it.
C33_Witness ==
    /\ pc = "wrapped"
    /\ Len(wrapLines) >= 2
    /\ \E j \in 1..(Len(wrapLines) - 1) :
          /\ Len(WordsOf(wrapLines[j])) >= 2
          /\ Len(Split(wrapLines[j])) = Len(WordsOf(wrapLines[j]))
          /\ Split(wrapLines[j + 1])[1] # << >>

\* C34: publishing order: an object name is built and an upload issued
\* only for a serialized document, a queue record is inserted only after
\* the upload was accepted, and a job whose upload was rejected ends with
\* a failure and without a queue record.
C34_PublishingOrder ==
    /\ safeName # << >> => pdfBytes = "bytes"
    /\ uploaded => pdfBytes = "bytes"
    /\ pc = "insert" => uploaded
    /\ (inserted # "none" \/ record # NoRecord) => uploaded
    /\ (pc = "done" /\ safeName # << >> /\ ~uploaded) =>
          /\ inserted = "none"
          /\ record = NoRecord
          /\ response = <<[status |-> 500, cause |-> "publisher"]>>

\* C34 witness: a job whose upload was rejected has ended.
C34_Witness ==
    /\ pc = "done"
    /\ pdfBytes = "bytes"
    /\ safeName # << >>
    /\ ~uploaded
    /\ inserted = "none"

\* C35: every invocation sends exactly one response: never more than
\* one, exactly one once the handler has returned, and a handler that has
\* not returned always has a step to take; the status is 405 exactly for
\* a method other than POST, and otherwise 200 or 500.
C35_ExactlyOneResponse ==
    /\ Len(response) <= 1
    /\ pc = "done" <=> Len(response) = 1
    /\ pc \notin {"done", "wrapped", "cleaned"} => ENABLED Next
    /\ \A i \in DOMAIN response :
          /\ response[i].status \in {200, 405, 500}
          /\ response[i].status = 405 <=> req.method # "POST"
          /\ response[i].status = 200 =>
                response[i].cause \in {"none", "diagnosis"}

\* C35 witness: an error thrown after the document was loaded was caught
\* and answered with the one response of the job.
C35_Witness ==
    /\ version = "RealName"
    /\ pc = "done"
    /\ response # << >>
    /\ response[1].status = 500
    /\ docLoaded

\* C36: two jobs that run at the same time never upload under the same
\* object name, so the object a job uploaded keeps holding the bytes of
\* that job.
C36_NoSharedObjectName ==
    /\ (uploaded /\ peerPc = "uploaded") => safeName # peerSafeName
    /\ uploaded => [name |-> safeName, owner |-> "job"] \in bucket
    /\ peerPc = "uploaded" => [name |-> peerSafeName, owner |-> "peer"] \in bucket

\* C37: termination: when every external call eventually returns or
\* fails, every request eventually receives a response, and the fallback
\* loop never issues more extraction requests than there are candidates.
C37_Termination ==
    /\ <>(pc = "done" /\ response # << >>)
    /\ [](Len(ExtractAttempts(attempts)) <= Len(MODELS_TO_TRY(version)))

\* C37 witness: a job of the anchor-based version whose every candidate
\* failed was answered.
C37_Witness ==
    /\ version = "RealName"
    /\ Len(ExtractAttempts(attempts)) = Len(MODELS_TO_TRY(version))
    /\ \A i \in DOMAIN attempts : attempts[i].result \in {"failed", "unparsed"}
    /\ pc = "done"
    /\ response # << >>

====
